---- MODULE Spec2Model ----
(***************************************************************************)
(* The macro target calculator of the fitness companion backend            *)
(* (backend/app/services/macros.py) and the calls its caller, the          *)
(* onboarding workflow, makes to it.                                       *)
(*                                                                         *)
(* Numbers.  The source computes in Python floats.  The model computes     *)
(* the same expressions exactly, in decimal fixed point: a number is a     *)
(* record [n, d] that stands for n / (d * 10^9), n a three-limb integer    *)
(* (TLC's integers are 32 bits wide).  Every intermediate value of the     *)
(* source is a decimal with at most nine places, or such a decimal         *)
(* divided by 4 or 9, when weight_lbs has one decimal place and height     *)
(* and age are integers, so no operation below loses anything.  What the   *)
(* model leaves out is the binary rounding error of the floats (about      *)
(* 1e-13 on these magnitudes): it can only change the direction in which   *)
(* round() resolves a value that lies within 1e-13 of a rounding           *)
(* boundary, where the model rounds half to even as Python does on the     *)
(* exact value.  That happens for weights that end in .5 lb, where          *)
(* weight * 0.9 and weight * 0.3 have a 5 in the second decimal place;     *)
(* the grid below, as written, has none, and on each of its calls the      *)
(* model returns what the Python source returns.                           *)
(*                                                                         *)
(* Units.  weight_lbs is given in tenths of a pound; the decimal           *)
(* constants of the source are integers with a stated number of decimal    *)
(* places; the grams of a result are tenths of a gram, as round(x, 1)      *)
(* leaves them.                                                            *)
(***************************************************************************)
EXTENDS Integers, Sequences, FiniteSets, TLC

(***************************************************************************)
(* Three-limb integers <<a, b, c>> = a*Limb^2 + b*Limb + c, with           *)
(* 0 <= b, c < Limb and a of either sign (floor representation).           *)
(***************************************************************************)
Limb == 1000 * 1000

BigNorm(a, b, c) ==
    LET b1 == b + (c \div Limb)
    IN  <<a + (b1 \div Limb), b1 % Limb, c % Limb>>

BigOfInt(i) == BigNorm(0, 0, i)

BigAdd(x, y) == BigNorm(x[1] + y[1], x[2] + y[2], x[3] + y[3])

BigSub(x, y) == BigNorm(x[1] - y[1], x[2] - y[2], x[3] - y[3])

BigNeg(x) == BigNorm(-x[1], -x[2], -x[3])

BigLess(x, y) ==
    \/ x[1] < y[1]
    \/ x[1] = y[1] /\ x[2] < y[2]
    \/ x[1] = y[1] /\ x[2] = y[2] /\ x[3] < y[3]

\* l * k as <<carry, rest>>, l a limb and 0 <= k <= 2000000
LimbMul(l, k) ==
    LET hk == (l \div 1000) * k
        t  == (hk % 1000) * 1000 + (l % 1000) * k
    IN  <<(hk \div 1000) + (t \div Limb), t % Limb>>

BigMulNat(x, k) ==
    LET mb == LimbMul(x[2], k)
        mc == LimbMul(x[3], k)
    IN  BigNorm(x[1] * k + mb[1], mb[2] + mc[1], mc[2])

BigMul(x, k) == IF k >= 0 THEN BigMulNat(x, k) ELSE BigNeg(BigMulNat(x, -k))

\* floor(x / d) and x mod d as <<quotient, remainder>>, 0 < d <= 2147
BigDivMod(x, d) ==
    LET t1 == (x[1] % d) * Limb + x[2]
        t2 == (t1 % d) * Limb + x[3]
    IN  <<(<<x[1] \div d, t1 \div d, t2 \div d>>), t2 % d>>

BigDiv(x, d) == BigDivMod(x, d)[1]

Pow10(e) ==
    CASE e = 0 -> 1
      [] e = 1 -> 10
      [] e = 2 -> 100
      [] e = 3 -> 1000
      [] e = 4 -> 10000
      [] e = 5 -> 100000

\* floor(x / 10^e), 0 <= e <= 6
BigDivExp(x, e) ==
    IF e <= 3 THEN BigDiv(x, Pow10(e))
    ELSE BigDiv(BigDiv(x, 1000), Pow10(e - 3))

BigToInt(x) == (x[1] * Limb + x[2]) * Limb + x[3]

\* x / (ds * Limb) rounded to the nearest integer, a tie to the even one
\* (0 < ds <= 2147)
BigRoundDiv(x, ds) ==
    LET qr == BigDivMod(<<x[1] \div Limb, x[1] % Limb, x[2]>>, ds)
        q  == BigToInt(qr[1])
        r  == qr[2] * Limb + x[3]
        dd == ds * Limb
    IN  IF r < dd - r THEN q
        ELSE IF r > dd - r THEN q + 1
        ELSE IF q % 2 = 0 THEN q ELSE q + 1

(***************************************************************************)
(* Numbers [n, d] = n / (d * 10^9).                                        *)
(***************************************************************************)
\* the decimal m * 10^-e, 4 <= e <= 9, or 0 <= e <= 3 and |m| <= 2000000
Dec(m, e) ==
    [n |-> IF e <= 3 THEN BigNorm(0, m * Pow10(3 - e), 0)
           ELSE BigMulNat(BigOfInt(m), Pow10(9 - e)),
     d |-> 1]

\* x * (m * 10^-e): a product with a decimal constant or input
TimesDec(x, m, e) == [n |-> BigDivExp(BigMul(x.n, m), e), d |-> x.d]

\* x * k, k a positive integer
Times(x, k) ==
    IF x.d % k = 0 THEN [n |-> x.n, d |-> x.d \div k]
    ELSE [n |-> BigMul(x.n, k), d |-> x.d]

\* x / k, k a positive integer
Over(x, k) == [n |-> x.n, d |-> x.d * k]

Plus(x, y) ==
    IF x.d = y.d THEN [n |-> BigAdd(x.n, y.n), d |-> x.d]
    ELSE [n |-> BigAdd(BigMul(x.n, y.d), BigMul(y.n, x.d)), d |-> x.d * y.d]

Minus(x, y) ==
    IF x.d = y.d THEN [n |-> BigSub(x.n, y.n), d |-> x.d]
    ELSE [n |-> BigSub(BigMul(x.n, y.d), BigMul(y.n, x.d)), d |-> x.d * y.d]

Less(x, y) ==
    IF x.d = y.d THEN BigLess(x.n, y.n)
    ELSE BigLess(BigMul(x.n, y.d), BigMul(y.n, x.d))

\* Python's max(x, y) and min(x, y): the first argument on equality
Max(x, y) == IF Less(x, y) THEN y ELSE x

Min(x, y) == IF Less(y, x) THEN y ELSE x

IsNegative(x) == x.n[1] < 0

\* round(x): to the nearest integer
Round0(x) == BigRoundDiv(x.n, x.d * 1000)

\* round(x, 1), in tenths
Round1(x) == BigRoundDiv(x.n, x.d * 100)

(***************************************************************************)
(* Constants of macros.py.  Activity multipliers have three decimal        *)
(* places, goal adjustments and fat percentages two, protein rates and     *)
(* the fat minimum per pound one.                                          *)
(***************************************************************************)
ACTIVITY_SEDENTARY == 1200
ACTIVITY_LIGHT == 1375
ACTIVITY_MODERATE == 1550
ACTIVITY_ACTIVE == 1725
ACTIVITY_VERY_ACTIVE == 1900

GOAL_LOSE_WEIGHT == -20
GOAL_BUILD_MUSCLE == 10
GOAL_MAINTAIN == 0
GOAL_IMPROVE_ENDURANCE == 5
GOAL_GENERAL_FITNESS == 0

PROTEIN_MIN == 8
PROTEIN_MAINTENANCE == 8
PROTEIN_LOSE_WEIGHT == 10
PROTEIN_BUILD_MUSCLE == 12
PROTEIN_ENDURANCE == 9
PROTEIN_GENERAL == 8

FAT_PERCENT_MIN == 20
FAT_PERCENT_MAX == 30
FAT_MIN_PER_LB == 3

CALORIES_PER_GRAM_PROTEIN == 4
CALORIES_PER_GRAM_CARB == 4
CALORIES_PER_GRAM_FAT == 9

\* the literals of calculate_bmr_mifflin_st_jeor: 0.453592, 2.54, 6.25
KG_PER_LB == 453592
CM_PER_INCH == 254
BMR_HEIGHT_COEFF == 625
BMR_WEIGHT_COEFF == 10
BMR_AGE_COEFF == 5
BMR_MALE_OFFSET == 5
BMR_FEMALE_OFFSET == -161

KnownGoals ==
    {"lose_weight", "build_muscle", "maintain", "improve_endurance",
     "general_fitness"}

(***************************************************************************)
(* calculate_bmr_mifflin_st_jeor, weight_lbs in tenths of a pound          *)
(***************************************************************************)
\* calculate_bmr_mifflin_st_jeor with a slip: the weight term subtracted
calculate_bmr_subtracts_weight(weight_lbs, height_inches, age, is_male) ==
    LET weight_kg == TimesDec(Dec(weight_lbs, 1), KG_PER_LB, 6)
        height_cm == TimesDec(Dec(height_inches, 0), CM_PER_INCH, 2)
        base == Minus(Minus(TimesDec(height_cm, BMR_HEIGHT_COEFF, 2),
                            Times(weight_kg, BMR_WEIGHT_COEFF)),
                      Dec(BMR_AGE_COEFF * age, 0))
    IN  IF is_male THEN Plus(base, Dec(BMR_MALE_OFFSET, 0))
        ELSE Plus(base, Dec(BMR_FEMALE_OFFSET, 0))

calculate_bmr_mifflin_st_jeor(weight_lbs, height_inches, age, is_male) ==
    LET weight_kg == TimesDec(Dec(weight_lbs, 1), KG_PER_LB, 6)
        height_cm == TimesDec(Dec(height_inches, 0), CM_PER_INCH, 2)
        base == Minus(Plus(Times(weight_kg, BMR_WEIGHT_COEFF),
                           TimesDec(height_cm, BMR_HEIGHT_COEFF, 2)),
                      Dec(BMR_AGE_COEFF * age, 0))
    IN  IF is_male THEN Plus(base, Dec(BMR_MALE_OFFSET, 0))
        ELSE Plus(base, Dec(BMR_FEMALE_OFFSET, 0))

\* get_activity_multiplier with a slip: the upper bound of a band
\* exclusive
get_activity_multiplier_exclusive(training_days_per_week) ==
    IF training_days_per_week = 0 THEN ACTIVITY_SEDENTARY
    ELSE IF training_days_per_week < 2 THEN ACTIVITY_LIGHT
    ELSE IF training_days_per_week < 4 THEN ACTIVITY_MODERATE
    ELSE IF training_days_per_week < 6 THEN ACTIVITY_ACTIVE
    ELSE ACTIVITY_VERY_ACTIVE

get_activity_multiplier(training_days_per_week) ==
    IF training_days_per_week = 0 THEN ACTIVITY_SEDENTARY
    ELSE IF training_days_per_week <= 2 THEN ACTIVITY_LIGHT
    ELSE IF training_days_per_week <= 4 THEN ACTIVITY_MODERATE
    ELSE IF training_days_per_week <= 6 THEN ACTIVITY_ACTIVE
    ELSE ACTIVITY_VERY_ACTIVE

get_goal_adjustment(goal) ==
    CASE goal = "lose_weight" -> GOAL_LOSE_WEIGHT
      [] goal = "build_muscle" -> GOAL_BUILD_MUSCLE
      [] goal = "maintain" -> GOAL_MAINTAIN
      [] goal = "improve_endurance" -> GOAL_IMPROVE_ENDURANCE
      [] goal = "general_fitness" -> GOAL_GENERAL_FITNESS
      [] OTHER -> GOAL_MAINTAIN

\* get_protein_per_lb with a slip: another default for an unknown goal
get_protein_per_lb_other_default(goal) ==
    CASE goal = "lose_weight" -> PROTEIN_LOSE_WEIGHT
      [] goal = "build_muscle" -> PROTEIN_BUILD_MUSCLE
      [] goal = "maintain" -> PROTEIN_MAINTENANCE
      [] goal = "improve_endurance" -> PROTEIN_ENDURANCE
      [] goal = "general_fitness" -> PROTEIN_GENERAL
      [] OTHER -> PROTEIN_LOSE_WEIGHT

get_protein_per_lb(goal) ==
    CASE goal = "lose_weight" -> PROTEIN_LOSE_WEIGHT
      [] goal = "build_muscle" -> PROTEIN_BUILD_MUSCLE
      [] goal = "maintain" -> PROTEIN_MAINTENANCE
      [] goal = "improve_endurance" -> PROTEIN_ENDURANCE
      [] goal = "general_fitness" -> PROTEIN_GENERAL
      [] OTHER -> PROTEIN_MIN

(***************************************************************************)
(* The stages of calculate_macros, each on the values the source passes    *)
(* from one step to the next.                                              *)
(***************************************************************************)
\* steps 1-3: target_calories
TargetCalories(weight_lbs, height_inches, age, is_male, goal, training_days_per_week) ==
    LET bmr == calculate_bmr_mifflin_st_jeor(weight_lbs, height_inches, age,
                                             is_male)
        activity_mult == get_activity_multiplier(training_days_per_week)
        maintenance_calories == TimesDec(bmr, activity_mult, 3)
        goal_adj == get_goal_adjustment(goal)
    IN  TimesDec(maintenance_calories, 100 + goal_adj, 2)

\* step 4: protein_g
ProteinGrams(weight_lbs, goal) ==
    TimesDec(Dec(weight_lbs, 1), get_protein_per_lb(goal), 1)

\* step 5: fat_min_calories, the 0.3 g per pound floor in calories
FatMinCalories(weight_lbs) ==
    LET fat_min_g == TimesDec(Dec(weight_lbs, 1), FAT_MIN_PER_LB, 1)
    IN  Times(fat_min_g, CALORIES_PER_GRAM_FAT)

\* FatTargetCalories with a slip: the ceiling first and the floor per
\* pound last
FatTargetCalories_floor_last(weight_lbs, target_calories) ==
    LET fat_min_calories == FatMinCalories(weight_lbs)
        fat_max_calories == TimesDec(target_calories, FAT_PERCENT_MAX, 2)
        fat_min_calories_from_percent ==
            TimesDec(target_calories, FAT_PERCENT_MIN, 2)
    IN  Max(fat_min_calories,
            Min(fat_min_calories_from_percent, fat_max_calories))

\* step 5: fat_target_calories, the floors first and the ceiling last
FatTargetCalories(weight_lbs, target_calories) ==
    LET fat_min_calories == FatMinCalories(weight_lbs)
        fat_max_calories == TimesDec(target_calories, FAT_PERCENT_MAX, 2)
        fat_min_calories_from_percent ==
            TimesDec(target_calories, FAT_PERCENT_MIN, 2)
        fat_target_calories ==
            Max(fat_min_calories, fat_min_calories_from_percent)
    IN  Min(fat_target_calories, fat_max_calories)

\* step 6: carbs_g before the clamp
CarbGrams(target_calories, protein_g, fat_target_calories) ==
    LET protein_calories == Times(protein_g, CALORIES_PER_GRAM_PROTEIN)
        fat_g == Over(fat_target_calories, CALORIES_PER_GRAM_FAT)
        fat_calories == Times(fat_g, CALORIES_PER_GRAM_FAT)
        remaining_calories ==
            Minus(Minus(target_calories, protein_calories), fat_calories)
    IN  Over(remaining_calories, CALORIES_PER_GRAM_CARB)

\* the second pass: fat_g recomputed from the residual when carbs_g < 0
ClampedFatGrams(target_calories, protein_g) ==
    LET protein_calories == Times(protein_g, CALORIES_PER_GRAM_PROTEIN)
        fat_calories == Minus(target_calories, protein_calories)
    IN  Over(fat_calories, CALORIES_PER_GRAM_FAT)

\* the returned dictionary; grams in tenths
MacroResult(target_calories, protein_g, carbs_g, fat_g) ==
    [calories |-> Round0(target_calories),
     protein_g |-> Round1(protein_g),
     carbs_g |-> Round1(carbs_g),
     fat_g |-> Round1(fat_g)]

\* whether carbs_g < 0 holds at the clamp of step 6
CarbFillClamps(weight_lbs, height_inches, age, is_male, goal, training_days_per_week) ==
    LET target_calories ==
            TargetCalories(weight_lbs, height_inches, age, is_male, goal,
                           training_days_per_week)
    IN  IsNegative(CarbGrams(target_calories, ProteinGrams(weight_lbs, goal),
                             FatTargetCalories(weight_lbs, target_calories)))

\* the local variables of calculate_macros when it reaches "if carbs_g < 0"
calculate_macros_locals(weight_lbs, height_inches, age, is_male, goal, training_days_per_week) ==
    LET target_calories ==
            TargetCalories(weight_lbs, height_inches, age, is_male, goal,
                           training_days_per_week)
        protein_g == ProteinGrams(weight_lbs, goal)
        fat_target_calories == FatTargetCalories(weight_lbs, target_calories)
    IN  [target_calories |-> target_calories,
         protein_g |-> protein_g,
         fat_target_calories |-> fat_target_calories,
         carbs_g |-> CarbGrams(target_calories, protein_g,
                               fat_target_calories)]

\* calculate_macros with a slip: the clamp sets carbs_g to 0 and leaves
\* the first-stage fat as it is
calculate_macros_keeps_first_fat(weight_lbs, height_inches, age, is_male, goal, training_days_per_week) ==
    LET target_calories ==
            TargetCalories(weight_lbs, height_inches, age, is_male, goal,
                           training_days_per_week)
        protein_g == ProteinGrams(weight_lbs, goal)
        fat_target_calories == FatTargetCalories(weight_lbs, target_calories)
        carbs_g == CarbGrams(target_calories, protein_g, fat_target_calories)
    IN  MacroResult(target_calories, protein_g,
                    IF IsNegative(carbs_g) THEN Dec(0, 0) ELSE carbs_g,
                    Over(fat_target_calories, CALORIES_PER_GRAM_FAT))

\* calculate_macros with a slip: no clamp at all
calculate_macros_no_clamp(weight_lbs, height_inches, age, is_male, goal, training_days_per_week) ==
    LET target_calories ==
            TargetCalories(weight_lbs, height_inches, age, is_male, goal,
                           training_days_per_week)
        protein_g == ProteinGrams(weight_lbs, goal)
        fat_target_calories == FatTargetCalories(weight_lbs, target_calories)
    IN  MacroResult(target_calories, protein_g,
                    CarbGrams(target_calories, protein_g, fat_target_calories),
                    Over(fat_target_calories, CALORIES_PER_GRAM_FAT))

\* calculate_macros with a slip: the clamp also cuts protein down to what
\* the target leaves after the first-stage fat
calculate_macros_trims_protein(weight_lbs, height_inches, age, is_male, goal, training_days_per_week) ==
    LET target_calories ==
            TargetCalories(weight_lbs, height_inches, age, is_male, goal,
                           training_days_per_week)
        protein_g == ProteinGrams(weight_lbs, goal)
        fat_target_calories == FatTargetCalories(weight_lbs, target_calories)
        carbs_g == CarbGrams(target_calories, protein_g, fat_target_calories)
    IN  IF IsNegative(carbs_g)
        THEN MacroResult(target_calories,
                         Over(Minus(target_calories, fat_target_calories),
                              CALORIES_PER_GRAM_PROTEIN),
                         Dec(0, 0),
                         Over(fat_target_calories, CALORIES_PER_GRAM_FAT))
        ELSE MacroResult(target_calories, protein_g, carbs_g,
                         Over(fat_target_calories, CALORIES_PER_GRAM_FAT))

\* calculate_macros with a slip: the clamp refits fat to the whole target,
\* protein not subtracted
calculate_macros_refit_ignores_protein(weight_lbs, height_inches, age, is_male, goal, training_days_per_week) ==
    LET target_calories ==
            TargetCalories(weight_lbs, height_inches, age, is_male, goal,
                           training_days_per_week)
        protein_g == ProteinGrams(weight_lbs, goal)
        fat_target_calories == FatTargetCalories(weight_lbs, target_calories)
        carbs_g == CarbGrams(target_calories, protein_g, fat_target_calories)
    IN  IF IsNegative(carbs_g)
        THEN MacroResult(target_calories, protein_g, Dec(0, 0),
                         Over(target_calories, CALORIES_PER_GRAM_FAT))
        ELSE MacroResult(target_calories, protein_g, carbs_g,
                         Over(fat_target_calories, CALORIES_PER_GRAM_FAT))

calculate_macros(weight_lbs, height_inches, age, is_male, goal, training_days_per_week) ==
    LET target_calories ==
            TargetCalories(weight_lbs, height_inches, age, is_male, goal,
                           training_days_per_week)
        protein_g == ProteinGrams(weight_lbs, goal)
        fat_target_calories == FatTargetCalories(weight_lbs, target_calories)
        carbs_g == CarbGrams(target_calories, protein_g, fat_target_calories)
    IN  IF IsNegative(carbs_g)
        THEN MacroResult(target_calories, protein_g, Dec(0, 0),
                         ClampedFatGrams(target_calories, protein_g))
        ELSE MacroResult(target_calories, protein_g, carbs_g,
                         Over(fat_target_calories, CALORIES_PER_GRAM_FAT))

(***************************************************************************)
(* The calls.  A caller (the onboarding workflow, users.py) calls          *)
(* calculate_macros with the six values of a profile and gets the result;  *)
(* it may then call again with another weight or another goal.  The        *)
(* calculator keeps nothing between calls: last, the call before the       *)
(* current one, is kept here only so that two results can be compared.     *)
(***************************************************************************)
VARIABLES
    args,     \* the arguments of the current call
    result,   \* what it returned, NoResult until it has
    path,     \* the branch it took at "if carbs_g < 0": "clamped" or
              \* "filled", "none" until it has returned
    last,     \* the arguments and the result of the call before, or NoCall
    locals,   \* the local variables of the call as it returned (unrounded),
              \* NoLocals until it has
    frames,   \* concurrent callers: the frame of each caller's call
    returned, \* concurrent callers: the <<arguments, result>> of every call
              \* that has returned
    database, \* MongoDBClient.database: "None" or "connected"
    users,    \* the users collection: the documents in insertion order,
              \* the _id of a document its position
    requests, \* the HTTP requests in flight and their responses, by client
    issued    \* the access tokens register has returned with status 201

calcVars == <<args, result, path, last, locals>>
callVars == <<frames, returned>>
apiVars == <<database, users, requests, issued>>
vars == <<calcVars, callVars, apiVars>>

NoResult == [calories |-> "none"]
NoCall == [args |-> "none"]
NoLocals == [target_calories |-> "none"]

\* the inputs: a grid over the profile values, and the scenarios of
\* tests/test_macros.py
WeightMin == 400
WeightStep == 518
WeightCount == 5
HeightMin == 30
HeightStep == 24
HeightCount == 2
AgeMin == 18
AgeStep == 46
AgeCount == 2
MaxDays == 7

Weights == {WeightMin + i * WeightStep : i \in 0..WeightCount}
Heights == {HeightMin + i * HeightStep : i \in 0..HeightCount}
Ages == {AgeMin + i * AgeStep : i \in 0..AgeCount}
Days == 0..MaxDays
Goals == KnownGoals \cup {"unknown_string"}

Scenarios ==
    {[weight_lbs |-> 2050, height_inches |-> 72, age |-> 28,
      is_male |-> TRUE, goal |-> "build_muscle",
      training_days_per_week |-> 5],
     [weight_lbs |-> 1800, height_inches |-> 70, age |-> 35,
      is_male |-> TRUE, goal |-> "lose_weight",
      training_days_per_week |-> 4],
     [weight_lbs |-> 1400, height_inches |-> 65, age |-> 30,
      is_male |-> FALSE, goal |-> "maintain",
      training_days_per_week |-> 3]}

Inputs ==
    [weight_lbs : Weights, height_inches : Heights, age : Ages,
     is_male : BOOLEAN, goal : Goals, training_days_per_week : Days]
    \cup Scenarios

Call(a) ==
    calculate_macros(a.weight_lbs, a.height_inches, a.age, a.is_male, a.goal,
                     a.training_days_per_week)

\* the call with arguments a takes the branch that clamps carbs_g
Clamps(a) ==
    CarbFillClamps(a.weight_lbs, a.height_inches, a.age, a.is_male, a.goal,
                   a.training_days_per_week)

\* the local variables of the call with arguments a
Locals(a) ==
    calculate_macros_locals(a.weight_lbs, a.height_inches, a.age, a.is_male,
                            a.goal, a.training_days_per_week)

\* no concurrent callers
CallsIdle ==
    /\ frames = <<>>
    /\ returned = {}

\* no HTTP service
ApiIdle ==
    /\ database = "None"
    /\ users = <<>>
    /\ requests = <<>>
    /\ issued = {}

Init ==
    /\ args \in Inputs
    /\ result = NoResult
    /\ path = "none"
    /\ last = NoCall
    /\ locals = NoLocals
    /\ CallsIdle
    /\ ApiIdle

\* the call returns
Calculate ==
    /\ result = NoResult
    /\ result' = Call(args)
    /\ path' = IF Clamps(args) THEN "clamped" ELSE "filled"
    /\ locals' = Locals(args)
    /\ UNCHANGED <<args, last, callVars, apiVars>>

\* the caller calls again with another weight
ChangeWeight ==
    /\ result # NoResult
    /\ last = NoCall
    /\ \E w \in Weights \ {args.weight_lbs} :
           args' = [args EXCEPT !.weight_lbs = w]
    /\ last' = [args |-> args, result |-> result]
    /\ result' = NoResult
    /\ path' = "none"
    /\ locals' = NoLocals
    /\ UNCHANGED <<callVars, apiVars>>

\* the caller calls again with another goal
ChangeGoal ==
    /\ result # NoResult
    /\ last = NoCall
    /\ \E g \in Goals \ {args.goal} : args' = [args EXCEPT !.goal = g]
    /\ last' = [args |-> args, result |-> result]
    /\ result' = NoResult
    /\ path' = "none"
    /\ locals' = NoLocals
    /\ UNCHANGED <<callVars, apiVars>>

Next == Calculate \/ ChangeWeight \/ ChangeGoal

Spec == Init /\ [][Next]_vars

(***************************************************************************)
(* What the claims read of a state.                                        *)
(***************************************************************************)
Returned == result # NoResult

\* the data-model constraints on the inputs
ValidInput(a) ==
    /\ a.weight_lbs > 0
    /\ a.height_inches > 0
    /\ a.age > 0
    /\ a.training_days_per_week \in 0..7

Abs(i) == IF i < 0 THEN -i ELSE i

\* protein_g*4 + carbs_g*4 + fat_g*9 of a result, in tenths of a calorie
MacroCalories(r) == r.protein_g * 4 + r.carbs_g * 4 + r.fat_g * 9

(***************************************************************************)
(* C1: for every valid input, the returned protein_g*4 + carbs_g*4 +       *)
(* fat_g*9 is within 10 of the returned calories, on the normal path and   *)
(* on the path where the clamp recomputes fat.                             *)
(***************************************************************************)
C1_MacroCaloriesMatch ==
    (Returned /\ ValidInput(args)) =>
        Abs(MacroCalories(result) - 10 * result.calories) <= 100

\* a valid call that took the clamp path has returned
C1_Witness ==
    /\ Returned
    /\ ValidInput(args)
    /\ path = "clamped"
    /\ result.carbs_g = 0
    /\ Abs(MacroCalories(result) - 10 * result.calories) <= 100

(***************************************************************************)
(* C2: for every valid input the returned fat_g is >= 0, also when the     *)
(* clamp recomputes fat as (target_calories - protein_calories) / 9.       *)
(***************************************************************************)
C2_FatNonNegative ==
    (Returned /\ ValidInput(args)) => result.fat_g >= 0

(***************************************************************************)
(* C3: for every valid input the returned calories is > 0.                 *)
(***************************************************************************)
C3_CaloriesPositive ==
    (Returned /\ ValidInput(args)) => result.calories > 0

(***************************************************************************)
(* C4: for every input with weight_lbs > 0 the returned protein_g and      *)
(* carbs_g are >= 0, and carbs_g is 0 whenever the carbohydrate remainder  *)
(* is negative.                                                            *)
(***************************************************************************)
C4_ProteinCarbsNonNegative ==
    (Returned /\ args.weight_lbs > 0) =>
        /\ result.protein_g >= 0
        /\ result.carbs_g >= 0
        /\ path = "clamped" => result.carbs_g = 0

\* a call whose remainder is negative has returned carbs_g = 0
C4_Witness ==
    /\ Returned
    /\ args.weight_lbs > 0
    /\ path = "clamped"
    /\ result.carbs_g = 0
    /\ result.protein_g > 0

(***************************************************************************)
(* C5: for every valid input on which the clamp does not fire, the fat     *)
(* share of the returned values, (fat_g * 9 / calories) * 100, lies in     *)
(* [20, 30].  With fat_g in tenths the share is 90 * fat_g / calories.     *)
(***************************************************************************)
FatShareInRange(r) ==
    /\ r.calories > 0
    /\ 20 * r.calories <= 90 * r.fat_g
    /\ 90 * r.fat_g <= 30 * r.calories

C5_FatShareInRange ==
    (Returned /\ ValidInput(args) /\ path = "filled") =>
        FatShareInRange(result)

(***************************************************************************)
(* C6: the lean bulk scenario (205 lb, 72 in, 28 years, male,              *)
(* build_muscle, 5 days) returns protein_g = 246.0, calories > 2500 and a  *)
(* fat share within [20, 30].                                              *)
(***************************************************************************)
LeanBulk ==
    [weight_lbs |-> 2050, height_inches |-> 72, age |-> 28, is_male |-> TRUE,
     goal |-> "build_muscle", training_days_per_week |-> 5]

C6_LeanBulkScenario ==
    (Returned /\ args = LeanBulk) =>
        /\ result.protein_g = 2460
        /\ result.calories > 2500
        /\ FatShareInRange(result)

(***************************************************************************)
(* C7: for every valid input the returned fat_g is at least                *)
(* weight_lbs * 0.3 (fat_g and weight_lbs both in tenths here).            *)
(***************************************************************************)
C7_FatFloorPerPound ==
    (Returned /\ ValidInput(args)) => 10 * result.fat_g >= 3 * args.weight_lbs

(***************************************************************************)
(* C8: protein is never clamped: for each of the five goals the returned   *)
(* protein_g is round(weight_lbs * rate, 1) with the rate 1.2 / 1.0 /      *)
(* 0.8 / 0.9 / 0.8, whatever the other inputs are and whether or not the   *)
(* clamp fires.                                                            *)
(***************************************************************************)
C8_Rate(goal) ==
    CASE goal = "build_muscle" -> 12
      [] goal = "lose_weight" -> 10
      [] goal = "maintain" -> 8
      [] goal = "improve_endurance" -> 9
      [] goal = "general_fitness" -> 8

IsMacroResult(r) ==
    /\ DOMAIN r = {"calories", "protein_g", "carbs_g", "fat_g"}
    /\ \A f \in DOMAIN r : r[f] \in Int

\* the call before and the current call: one with goal maintain, the other
\* with an unknown goal, the other five inputs the same
C9_Pair ==
    /\ Returned
    /\ last # NoCall
    /\ [last.args EXCEPT !.goal = "maintain"] = [args EXCEPT !.goal = "maintain"]
    /\ \/ last.args.goal = "maintain" /\ args.goal \notin KnownGoals
       \/ args.goal = "maintain" /\ last.args.goal \notin KnownGoals

C9_UnknownGoalAsMaintain ==
    /\ (Returned /\ args.goal \notin KnownGoals) =>
           /\ IsMacroResult(result)
           /\ get_goal_adjustment(args.goal) = 0
           /\ get_protein_per_lb(args.goal) = 8
    /\ C9_Pair => result = last.result

C9_Witness ==
    /\ C9_Pair
    /\ args.goal \notin KnownGoals
    /\ IsMacroResult(result)
    /\ result = last.result
    /\ result.calories > 0

(***************************************************************************)
(* C10: with height, age, sex, goal and training days held constant, for   *)
(* two weights w1 <= w2 the BMR, the returned protein_g and the absolute   *)
(* fat floor weight * 0.3 * 9 at w1 are <= those at w2.                    *)
(***************************************************************************)
Bmr(a) ==
    calculate_bmr_mifflin_st_jeor(a.weight_lbs, a.height_inches, a.age,
                                  a.is_male)

\* the call before and the current call differ in weight_lbs at most
C10_Pair ==
    /\ Returned
    /\ last # NoCall
    /\ [last.args EXCEPT !.weight_lbs = 0] = [args EXCEPT !.weight_lbs = 0]

C10_Ordered(lo, lor, hi, hir) ==
    /\ ~Less(Bmr(hi), Bmr(lo))
    /\ lor.protein_g <= hir.protein_g
    /\ ~Less(FatMinCalories(hi.weight_lbs), FatMinCalories(lo.weight_lbs))

C10_MonotoneInWeight ==
    C10_Pair =>
        /\ last.args.weight_lbs <= args.weight_lbs =>
               C10_Ordered(last.args, last.result, args, result)
        /\ args.weight_lbs <= last.args.weight_lbs =>
               C10_Ordered(args, result, last.args, last.result)

\* two calls, the second with the larger weight, and all three quantities
\* strictly larger
C10_Witness ==
    /\ C10_Pair
    /\ last.args.weight_lbs < args.weight_lbs
    /\ Less(Bmr(last.args), Bmr(args))
    /\ last.result.protein_g < result.protein_g
    /\ Less(FatMinCalories(last.args.weight_lbs),
            FatMinCalories(args.weight_lbs))

(***************************************************************************)
(* C15: in the first fat stage the ceiling clamps last and                 *)
(* unconditionally: fat_target_calories is min(max(weight_lbs*0.3*9,       *)
(* 0.20*target_calories), 0.30*target_calories); it never exceeds          *)
(* 0.30*target_calories, and whenever weight_lbs*0.3*9 is above            *)
(* 0.30*target_calories it is exactly 0.30*target_calories.                *)
(***************************************************************************)
Same(x, y) == ~Less(x, y) /\ ~Less(y, x)

\* weight_lbs * 0.3 * 9, weight_lbs in tenths
C15_FloorPerPound == Dec(27 * args.weight_lbs, 2)

C15_Ceiling == TimesDec(locals.target_calories, 3, 1)

C15_FloorPercent == TimesDec(locals.target_calories, 2, 1)

C15_FatCeilingLast ==
    Returned =>
        LET floors == IF Less(C15_FloorPerPound, C15_FloorPercent)
                      THEN C15_FloorPercent ELSE C15_FloorPerPound
        IN  /\ Same(locals.fat_target_calories,
                    IF Less(C15_Ceiling, floors) THEN C15_Ceiling ELSE floors)
            /\ ~Less(C15_Ceiling, locals.fat_target_calories)
            /\ Less(C15_Ceiling, C15_FloorPerPound) =>
                   Same(locals.fat_target_calories, C15_Ceiling)

\* a call with a positive target whose floor per pound is above the
\* ceiling: the first stage gave the ceiling, below the floor
C15_Witness ==
    /\ Returned
    /\ ValidInput(args)
    /\ result.calories > 0
    /\ Less(C15_Ceiling, C15_FloorPerPound)
    /\ Same(locals.fat_target_calories, C15_Ceiling)
    /\ Less(locals.fat_target_calories, C15_FloorPerPound)

(***************************************************************************)
(* C16: when target_calories - protein_calories - fat_calories is          *)
(* negative, the first-stage fat is discarded: carbs_g = 0 and fat_g =     *)
(* round((target_calories - protein_calories) / 9, 1), so that before      *)
(* rounding protein_g*4 + fat_g*9 is target_calories exactly (the fat      *)
(* share may then lie outside [20, 30]); when the remainder is >= 0 the    *)
(* first-stage fat is returned unchanged.                                  *)
(***************************************************************************)
C16_ProteinCalories == Times(locals.protein_g, 4)

C16_Remainder ==
    Minus(Minus(locals.target_calories, C16_ProteinCalories),
          locals.fat_target_calories)

C16_RefitFat == Over(Minus(locals.target_calories, C16_ProteinCalories), 9)

C16_ClampDiscardsFirstFat ==
    Returned =>
        /\ IsNegative(C16_Remainder) =>
               /\ result.carbs_g = 0
               /\ result.fat_g = Round1(C16_RefitFat)
               /\ Same(Plus(C16_ProteinCalories, Times(C16_RefitFat, 9)),
                       locals.target_calories)
        /\ ~IsNegative(C16_Remainder) =>
               result.fat_g = Round1(Over(locals.fat_target_calories, 9))

\* a valid call with a positive target whose remainder is negative: fat
\* refitted, away from the first stage's, and its share below 20%
C16_Witness ==
    /\ Returned
    /\ ValidInput(args)
    /\ IsNegative(C16_Remainder)
    /\ result.calories > 0
    /\ result.carbs_g = 0
    /\ result.fat_g = Round1(C16_RefitFat)
    /\ result.fat_g # Round1(Over(locals.fat_target_calories, 9))
    /\ result.fat_g >= 0
    /\ 90 * result.fat_g < 20 * result.calories

(***************************************************************************)
(* Concurrent callers.  Several callers are inside calculate_macros at     *)
(* the same time (one call per inbound onboarding request, on any number   *)
(* of threads), each at its own statement.  A call has a frame with its    *)
(* arguments and its local variables; the statements of the function       *)
(* assign and read those, and read the module-level constants, which       *)
(* nothing assigns.  The steps of different callers interleave in every    *)
(* order.                                                                  *)
(***************************************************************************)
NumCallers == 2

Callers == 1..NumCallers

\* a call on which the clamp fires
ClampedCall ==
    [weight_lbs |-> 400, height_inches |-> 30, age |-> 64, is_male |-> FALSE,
     goal |-> "lose_weight", training_days_per_week |-> 0]

CallInputs == Scenarios \cup {ClampedCall}

\* a local variable that has not been assigned
Unbound == [n |-> <<0, 0, 0>>, d |-> 0]

\* the frame of a call that has just been entered
NewFrame(a) ==
    [pc |-> "target", args |-> a, target_calories |-> Unbound,
     protein_g |-> Unbound, fat_target_calories |-> Unbound,
     carbs_g |-> Unbound, fat_g |-> Unbound]

\* no call in progress: no frame
IdleFrame ==
    [NewFrame([weight_lbs |-> 0, height_inches |-> 0, age |-> 0,
               is_male |-> FALSE, goal |-> "", training_days_per_week |-> 0])
     EXCEPT !.pc = "idle"]

\* an assignment with a slip: the name is a module-level variable, one
\* cell that every call in progress sees
store_module_level(fs, c, name, value) ==
    [k \in DOMAIN fs |->
        IF fs[k].pc = "idle" THEN fs[k] ELSE [fs[k] EXCEPT ![name] = value]]

\* name = value in the call of caller c: an assignment to a local variable
store(fs, c, name, value) == [fs EXCEPT ![c][name] = value]

\* the call of caller c moves on to its next statement
goto(fs, c, pc) == [fs EXCEPT ![c].pc = pc]

InitCalls ==
    /\ frames = [c \in Callers |-> IdleFrame]
    /\ returned = {}
    /\ args = NoCall
    /\ result = NoResult
    /\ path = "none"
    /\ last = NoCall
    /\ locals = NoLocals
    /\ ApiIdle

\* a caller enters calculate_macros
EnterCall(c) ==
    /\ frames[c].pc = "idle"
    /\ \E a \in CallInputs : frames' = [frames EXCEPT ![c] = NewFrame(a)]
    /\ UNCHANGED <<returned, calcVars, apiVars>>

\* steps 1-3: bmr, maintenance_calories, target_calories
ComputeTarget(c) ==
    /\ frames[c].pc = "target"
    /\ LET a == frames[c].args
       IN  frames' =
               goto(store(frames, c, "target_calories",
                          TargetCalories(a.weight_lbs, a.height_inches, a.age,
                                         a.is_male, a.goal,
                                         a.training_days_per_week)),
                    c, "protein")
    /\ UNCHANGED <<returned, calcVars, apiVars>>

\* step 4: protein_g
ComputeProtein(c) ==
    /\ frames[c].pc = "protein"
    /\ frames' =
           goto(store(frames, c, "protein_g",
                      ProteinGrams(frames[c].args.weight_lbs,
                                   frames[c].args.goal)),
                c, "fat")
    /\ UNCHANGED <<returned, calcVars, apiVars>>

\* step 5: fat_target_calories, fat_g
ComputeFat(c) ==
    /\ frames[c].pc = "fat"
    /\ LET fat_target_calories ==
               FatTargetCalories(frames[c].args.weight_lbs,
                                 frames[c].target_calories)
       IN  frames' =
               goto(store(store(frames, c, "fat_target_calories",
                                fat_target_calories),
                          c, "fat_g",
                          Over(fat_target_calories, CALORIES_PER_GRAM_FAT)),
                    c, "carbs")
    /\ UNCHANGED <<returned, calcVars, apiVars>>

\* step 6: carbs_g, and the clamp with its second pass on fat_g
ComputeCarbs(c) ==
    /\ frames[c].pc = "carbs"
    /\ LET f == frames[c]
           carbs_g == CarbGrams(f.target_calories, f.protein_g,
                                f.fat_target_calories)
       IN  frames' =
               IF IsNegative(carbs_g)
               THEN goto(store(store(frames, c, "carbs_g", Dec(0, 0)),
                               c, "fat_g",
                               ClampedFatGrams(f.target_calories,
                                               f.protein_g)),
                         c, "return")
               ELSE goto(store(frames, c, "carbs_g", carbs_g), c, "return")
    /\ UNCHANGED <<returned, calcVars, apiVars>>

\* the return statement
ReturnResult(c) ==
    /\ frames[c].pc = "return"
    /\ LET f == frames[c]
       IN  returned' =
               returned \cup
                   {[args |-> f.args,
                     result |-> MacroResult(f.target_calories, f.protein_g,
                                            f.carbs_g, f.fat_g)]}
    /\ frames' = [frames EXCEPT ![c] = IdleFrame]
    /\ UNCHANGED <<calcVars, apiVars>>

NextCalls ==
    \E c \in Callers :
        \/ EnterCall(c)
        \/ ComputeTarget(c)
        \/ ComputeProtein(c)
        \/ ComputeFat(c)
        \/ ComputeCarbs(c)
        \/ ReturnResult(c)

SpecCalls == InitCalls /\ [][NextCalls]_vars

(***************************************************************************)
(* C11: the result of a call is a function of its own six arguments only:  *)
(* two calls with the same arguments return the same result whatever       *)
(* calls ran before them or are interleaved with them, and no call reads   *)
(* or writes state shared with another call.                               *)
(***************************************************************************)
\* the calls that have returned with the same arguments returned the same
C11_SameArgumentsSameResult ==
    \A p, q \in returned : p.args = q.args => p.result = q.result

\* a step changes the frame of one caller at most, and a call that returns
\* in it returns what its arguments alone determine
C11_OwnFrameOnly ==
    /\ \A c, k \in Callers :
           (c # k /\ frames'[c] # frames[c]) => frames'[k] = frames[k]
    /\ \A p \in returned' \ returned : p.result = Call(p.args)

C11_CallsIndependent ==
    []C11_SameArgumentsSameResult /\ [][C11_OwnFrameOnly]_vars

\* a call is about to return with arguments that have returned before,
\* while another caller is inside a call with other arguments
C11_Witness ==
    \E c, k \in Callers :
        /\ c # k
        /\ frames[c].pc = "return"
        /\ frames[k].pc \in {"protein", "fat", "carbs", "return"}
        /\ frames[k].args # frames[c].args
        /\ \E p \in returned : p.args = frames[c].args
        /\ \E q \in returned : q.args = frames[k].args

(***************************************************************************)
(* Calls with any numeric input.  calculate_macros checks nothing: it is   *)
(* called here with weights, heights and ages that are negative or zero    *)
(* and with training days outside 0..7, and with the weights a Python      *)
(* float can also be: infinite, not a number, or so large (1e308) that     *)
(* 10 * weight_kg overflows to infinity.  A weight is a record: kind       *)
(* "finite" with its tenths of a pound, or one of these kinds.             *)
(***************************************************************************)
MaxAnyDays == 9

Finite(tenths) == [kind |-> "finite", tenths |-> tenths]

NonFinite(kind) == [kind |-> kind, tenths |-> 0]

AnyWeights ==
    {Finite(w) : w \in {-500, 0, 1500}}
    \cup {NonFinite(k) : k \in {"1e308", "inf", "-inf", "nan"}}

AnyInputs ==
    [weight_lbs : AnyWeights, height_inches : {-5, 0, 70},
     age : {-30, 30}, is_male : BOOLEAN,
     goal : {"maintain", "unknown_string"},
     training_days_per_week : {-2, -1} \cup (0..MaxAnyDays)]

\* round(target_calories) at the return statement, for a weight that is
\* not finite or overflows: with weight_lbs infinite or 1e308 the BMR and
\* with it target_calories is infinite (of the sign of the weight), with
\* weight_lbs not a number it is not a number; round() of an infinite
\* float raises OverflowError and of a NaN ValueError
round_raises(weight_lbs) ==
    CASE weight_lbs.kind = "nan" -> "ValueError"
      [] weight_lbs.kind \in {"1e308", "inf", "-inf"} -> "OverflowError"

\* calculate_macros on any float weight: the returned dictionary, or the
\* exception that leaves the function
calculate_macros_float(weight_lbs, height_inches, age, is_male, goal, training_days_per_week) ==
    IF weight_lbs.kind = "finite"
    THEN calculate_macros(weight_lbs.tenths, height_inches, age, is_male,
                          goal, training_days_per_week)
    ELSE [error |-> round_raises(weight_lbs)]

InitAny ==
    /\ args \in AnyInputs
    /\ result = NoResult
    /\ path = "none"
    /\ last = NoCall
    /\ locals = NoLocals
    /\ CallsIdle
    /\ ApiIdle

\* the call returns or raises
CalculateAny ==
    /\ result = NoResult
    /\ result' =
           calculate_macros_float(args.weight_lbs, args.height_inches,
                                  args.age, args.is_male, args.goal,
                                  args.training_days_per_week)
    /\ UNCHANGED <<args, path, last, locals, callVars, apiVars>>

\* the caller calls again with other training days
ChangeDays ==
    /\ result # NoResult
    /\ last = NoCall
    /\ \E d \in 0..MaxAnyDays :
           /\ d # args.training_days_per_week
           /\ args' = [args EXCEPT !.training_days_per_week = d]
    /\ last' = [args |-> args, result |-> result]
    /\ result' = NoResult
    /\ UNCHANGED <<path, locals, callVars, apiVars>>

NextAny == CalculateAny \/ ChangeDays

SpecAny == InitAny /\ [][NextAny]_vars

(***************************************************************************)
(* C12: calculate_macros always completes and returns a result with the    *)
(* four keys calories, protein_g, carbs_g, fat_g for every numeric input:  *)
(* it has no error outcome, also for inputs outside the valid domain       *)
(* (non-positive weight, height or age, training days outside 0..7), for   *)
(* which it returns values computed by the same formulas.                  *)
(***************************************************************************)
C12_AlwaysReturns == Returned => IsMacroResult(result)

(***************************************************************************)
(* C17: for every integer training_days_per_week >= 0 the multiplier is    *)
(* 1.20 for 0, 1.375 for 1..2, 1.55 for 3..4, 1.725 for 5..6 and 1.90 for  *)
(* 7 and above, so over days >= 0 the multiplier and, for a positive BMR,  *)
(* the maintenance calories never decrease as training days increase.      *)
(***************************************************************************)
C17_Band(days) ==
    CASE days = 0 -> 1200
      [] days \in 1..2 -> 1375
      [] days \in 3..4 -> 1550
      [] days \in 5..6 -> 1725
      [] days >= 7 -> 1900

\* bmr * multiplier for the weight, height, age and sex of a and the
\* given training days
C17_Maintenance(a, days) ==
    TimesDec(calculate_bmr_mifflin_st_jeor(a.weight_lbs.tenths,
                                           a.height_inches, a.age,
                                           a.is_male),
             get_activity_multiplier(days), 3)

MaxUsers == 2

\* the clients of the service (the two origins main.py allows)
Clients == {"frontend", "ios"}

Emails == {"test@example.com", "public@example.com"}

\* ---- bson.ObjectId and str ------------------------------------------
str(oid) == <<"oid", oid>>

NotAnObjectIdString == <<"text", 0>>

InvalidId == 0

\* ObjectId(s): the id, or InvalidId where the source raises
ObjectId(s) == IF s[1] = "oid" THEN s[2] ELSE InvalidId

\* ---- core/security.py (not among the sources: as its callers use it) --
None == [none |-> TRUE]

NoSub == <<"None", 0>>

\* create_access_token(data={"sub": ...}, expires_delta=...)
create_access_token(data) == [signed |-> TRUE, payload |-> data]

\* verify_token(token): the payload, or None
verify_token(token) == IF token.signed THEN token.payload ELSE None

\* ---- passlib -----------------------------------------------------------
get_password_hash(password) == <<"bcrypt", password>>

\* ---- the users collection ----------------------------------------------
NoProfile == [goal |-> "None"]

NoMacroTargets == [calories |-> "None"]

\* User(email=..., password_hash=...).to_dict()
User(email, password_hash) ==
    [email |-> email, password_hash |-> password_hash,
     profile |-> NoProfile, macro_targets |-> NoMacroTargets,
     macros_can_change_weekly |-> TRUE,
     created_at |-> "register", updated_at |-> "register"]

\* db.users.find_one({"email": email}): the _id of the first match, or
\* InvalidId for None
find_one_by_email(email) ==
    LET ids == {i \in DOMAIN users : users[i].email = email}
    IN  IF ids = {} THEN InvalidId
        ELSE CHOOSE i \in ids : \A j \in ids : i <= j

\* db.users.find_one({"_id": oid}) finds a document
find_one_by_id(oid) == oid \in DOMAIN users

\* ---- requests and responses --------------------------------------------
Idle == [pc |-> "idle"]

NoToken == create_access_token([sub |-> NoSub])

NoAuthorization == [scheme |-> "absent", token |-> NoToken]

Bearer(token) == [scheme |-> "Bearer", token |-> token]

\* the Authorization headers of requests: none; a token that fails
\* verification; tokens that verify, with no sub, with a sub that is no
\* ObjectId string, and with the _id of the first and of the second
\* document registered, before and after it is there
Credentials ==
    {NoAuthorization,
     Bearer([signed |-> FALSE, payload |-> [sub |-> str(1)]]),
     Bearer(create_access_token([sub |-> NoSub])),
     Bearer(create_access_token([sub |-> NotAnObjectIdString]))}
    \cup {Bearer(create_access_token([sub |-> str(oid)])) : oid \in {1, 2}}

\* a response; credentials and user tell what the request was
Response(kind, status, detail) ==
    [kind |-> kind, status |-> status, detail |-> detail,
     www_authenticate |-> "absent", access_token |-> NoToken,
     credentials |-> NoAuthorization, user |-> InvalidId]

\* HTTPException(401, ..., headers={"WWW-Authenticate": "Bearer"})
Unauthorized(kind, detail) ==
    [Response(kind, 401, detail) EXCEPT !.www_authenticate = "Bearer"]

Done(response) == [pc |-> "done", response |-> response]

\* the client has no request in flight
Free(c) == requests[c].pc \in {"idle", "done"}

\* ---- users.py: the onboarding request bodies ---------------------------
\* gender: Optional[str] = None
NoGender == "None"

OnboardingBodies ==
    {[goal |-> "build_muscle", training_days_per_week |-> 4,
      height_feet |-> 6, height_inches |-> 0, weight_pounds |-> Finite(1800),
      age |-> 30, gender |-> "male"],
     [goal |-> "maintain", training_days_per_week |-> 3,
      height_feet |-> 5, height_inches |-> 5, weight_pounds |-> Finite(1400),
      age |-> 30, gender |-> "female"],
     [goal |-> "maintain", training_days_per_week |-> 3,
      height_feet |-> 5, height_inches |-> 5, weight_pounds |-> Finite(1400),
      age |-> 30, gender |-> NoGender],
     [goal |-> "build_muscle", training_days_per_week |-> 4,
      height_feet |-> 6, height_inches |-> 0,
      weight_pounds |-> NonFinite("1e308"), age |-> 30, gender |-> "male"]}

total_height_inches(height_feet, height_inches) ==
    (height_feet * 12) + height_inches

\* is_male with a slip: everything but "female" is male
gender_is_not_female(gender) == gender # "female"

\* is_male = request.gender == "male"
gender_is_male(gender) == gender = "male"

\* macro_result of submit_onboarding: the dictionary, or the exception
macro_result(request) ==
    calculate_macros_float(request.weight_pounds,
                           total_height_inches(request.height_feet,
                                               request.height_inches),
                           request.age, gender_is_male(request.gender),
                           request.goal, request.training_days_per_week)

\* update_data with a slip: the macro targets left for a later update
update_data_profile_only(request, macros) ==
    [profile |-> request, macro_targets |-> NoMacroTargets,
     macros_can_change_weekly |-> TRUE, updated_at |-> "onboarding"]

\* update_data of submit_onboarding
update_data(request, macros) ==
    [profile |-> request, macro_targets |-> macros,
     macros_can_change_weekly |-> TRUE, updated_at |-> "onboarding"]

\* db.users.update_one({"_id": oid}, {"$set": data}): the collection after
update_one(oid, data) ==
    IF oid \in DOMAIN users
    THEN [users EXCEPT ![oid] =
             [f \in DOMAIN users[oid] |->
                 IF f \in DOMAIN data THEN data[f] ELSE users[oid][f]]]
    ELSE users

\* ---- dependencies.py ---------------------------------------------------
\* get_current_user with a slip: an unknown user answered 404
get_current_user_not_found(credentials) ==
    LET payload == verify_token(credentials.token)
    IN  IF credentials.scheme # "Bearer"
        THEN Unauthorized("onboarding", "Not authenticated")
        ELSE IF payload = None
        THEN Unauthorized("onboarding", "Invalid authentication credentials")
        ELSE IF payload.sub = NoSub
        THEN Unauthorized("onboarding", "Invalid token payload")
        ELSE IF database = "None"
        THEN Response("onboarding", 500, "Database connection not available")
        ELSE IF ObjectId(payload.sub) = InvalidId
        THEN Unauthorized("onboarding", "Invalid user ID")
        ELSE IF ~find_one_by_id(ObjectId(payload.sub))
        THEN Response("onboarding", 404, "User not found")
        ELSE [Response("onboarding", 200, "") EXCEPT
                 !.user = ObjectId(payload.sub)]

\* security = HTTPBearer() and get_current_user: the error response, or a
\* response-shaped record with status 200 and the user found
get_current_user(credentials) ==
    LET payload == verify_token(credentials.token)
    IN  IF credentials.scheme # "Bearer"
        THEN Unauthorized("onboarding", "Not authenticated")
        ELSE IF payload = None
        THEN Unauthorized("onboarding", "Invalid authentication credentials")
        ELSE IF payload.sub = NoSub
        THEN Unauthorized("onboarding", "Invalid token payload")
        ELSE IF database = "None"
        THEN Response("onboarding", 500, "Database connection not available")
        ELSE IF ObjectId(payload.sub) = InvalidId
        THEN Unauthorized("onboarding", "Invalid user ID")
        ELSE IF ~find_one_by_id(ObjectId(payload.sub))
        THEN Unauthorized("onboarding", "User not found")
        ELSE [Response("onboarding", 200, "") EXCEPT
                 !.user = ObjectId(payload.sub)]

\* ---- the service --------------------------------------------------------
Passwords == {"testpassword123"}

DatabaseNotAvailable(kind) ==
    Response(kind, 500, "Database connection not available")

\* the response goes to the client
Respond(c, response) == requests' = [requests EXCEPT ![c] = Done(response)]

InitApi ==
    /\ database = "None"
    /\ users = <<>>
    /\ requests = [c \in Clients |-> Idle]
    /\ issued = {}
    /\ args = NoCall
    /\ result = NoResult
    /\ path = "none"
    /\ last = NoCall
    /\ locals = NoLocals
    /\ CallsIdle

\* main.py startup: MongoDBClient.connect
connect ==
    /\ database = "None"
    /\ database' = "connected"
    /\ UNCHANGED <<users, requests, issued, calcVars, callVars>>

\* the registrations that have looked up and not yet inserted
PendingInserts ==
    {k \in Clients : requests[k].pc = "insert" /\ ~requests[k].existing_user}

\* register, up to the answer of find_one
RegisterFind(c) ==
    /\ Free(c)
    /\ \E email \in Emails :
           IF database = "None"
           THEN Respond(c, DatabaseNotAvailable("register"))
           ELSE LET existing_user == find_one_by_email(email) # InvalidId
                IN  /\ \/ existing_user
                       \/ Len(users) + Cardinality(PendingInserts) < MaxUsers
                    /\ requests' =
                           [requests EXCEPT ![c] =
                               [pc |-> "insert", email |-> email,
                                existing_user |-> existing_user]]
    /\ UNCHANGED <<database, users, issued, calcVars, callVars>>

\* register, from the answer of find_one on: 400, or insert_one and 201
RegisterInsert(c) ==
    /\ requests[c].pc = "insert"
    /\ IF requests[c].existing_user
       THEN /\ Respond(c, Response("register", 400,
                                   "Email already registered"))
            /\ UNCHANGED <<users, issued>>
       ELSE \E password \in Passwords :
                LET inserted_id == Len(users) + 1
                    access_token ==
                        create_access_token([sub |-> str(inserted_id)])
                IN  /\ users' =
                           Append(users,
                                  User(requests[c].email,
                                       get_password_hash(password)))
                    /\ issued' =
                           issued \cup
                               {[access_token |-> access_token,
                                 user |-> inserted_id,
                                 email |-> requests[c].email]}
                    /\ Respond(c, [Response("register", 201, "") EXCEPT
                                      !.access_token = access_token,
                                      !.user = inserted_id])
    /\ UNCHANGED <<database, calcVars, callVars>>

\* an onboarding request: the dependency get_current_user
Authenticate(c) ==
    /\ Free(c)
    /\ \E credentials \in Credentials :
           LET current_user ==
                   [get_current_user(credentials) EXCEPT
                       !.credentials = credentials]
           IN  IF current_user.status = 200
               THEN requests' =
                        [requests EXCEPT ![c] =
                            [pc |-> "update", credentials |-> credentials,
                             current_user |-> current_user.user]]
               ELSE Respond(c, current_user)
    /\ UNCHANGED <<database, users, issued, calcVars, callVars>>

\* the response of submit_onboarding with the request's credentials and user
Answer(c, status, detail) ==
    [Response("onboarding", status, detail) EXCEPT
        !.credentials = requests[c].credentials,
        !.user = requests[c].current_user]

\* submit_onboarding, up to the answer of update_one; an exception that
\* leaves the handler is answered 500
UpdateUser(c) ==
    /\ requests[c].pc = "update"
    /\ \E request \in OnboardingBodies :
           IF database = "None"
           THEN /\ Respond(c, Answer(c, 500,
                               "Database connection not available"))
                /\ UNCHANGED users
           ELSE \E macros \in {macro_result(request)} :
                    IF "error" \in DOMAIN macros
                    THEN /\ Respond(c, Answer(c, 500,
                                       "Internal Server Error"))
                         /\ UNCHANGED users
                    ELSE \E data \in {update_data(request, macros)} :
                             /\ users' =
                                    update_one(requests[c].current_user,
                                               data)
                             /\ requests' =
                                    [requests EXCEPT ![c].pc = "fetch"]
    /\ UNCHANGED <<database, issued, calcVars, callVars>>

\* submit_onboarding, from the answer of update_one on: find_one and the
\* public profile
FetchUser(c) ==
    /\ requests[c].pc = "fetch"
    /\ IF ~find_one_by_id(requests[c].current_user)
       THEN Respond(c, Answer(c, 404, "User not found after update"))
       ELSE Respond(c, Answer(c, 200, ""))
    /\ UNCHANGED <<database, users, issued, calcVars, callVars>>

NextApi ==
    \/ connect
    \/ \E c \in Clients :
           \/ RegisterFind(c)
           \/ RegisterInsert(c)
           \/ Authenticate(c)
           \/ UpdateUser(c)
           \/ FetchUser(c)

SpecApi == InitApi /\ [][NextApi]_vars

\* the responses to onboarding requests that the clients hold
OnboardingResponses ==
    {requests[c].response :
        c \in {k \in Clients : /\ requests[k].pc = "done"
                               /\ requests[k].response.kind = "onboarding"}}

\* 401 with the header WWW-Authenticate: Bearer
Is401Bearer(response) ==
    response.status = 401 /\ response.www_authenticate = "Bearer"

(***************************************************************************)
(* C13: a request to the onboarding endpoint that does not carry a valid   *)
(* bearer token (no token, a token that fails verification, a token        *)
(* without a sub, a sub that is not a valid object id, a sub that names no *)
(* existing user) is answered 401 with WWW-Authenticate: Bearer, and no    *)
(* user document is created or modified by it.                             *)
(***************************************************************************)
\* no token, a token that fails verification, or a token without a sub
C13_NoSubject(credentials) ==
    \/ credentials.scheme # "Bearer"
    \/ ~credentials.token.signed
    \/ credentials.token.payload.sub = NoSub

\* a sub that is not a valid object id, or that names no document of docs
C13_NoUser(credentials, docs) ==
    /\ ~C13_NoSubject(credentials)
    /\ \/ credentials.token.payload.sub[1] # "oid"
       \/ credentials.token.payload.sub[2] \notin DOMAIN docs

C13_Rejected(c) ==
    /\ Free(c)
    /\ requests'[c] # requests[c]
    /\ requests'[c].pc = "done"
    /\ requests'[c].response.kind = "onboarding"

\* amended: without a token, with one that fails verification or with one
\* without a sub the answer is 401 with the header; with a sub that is no
\* object id or names no user it is 401 with the header when the database
\* is connected and 500 when it is not; no document is created or modified
C13_RejectedStep ==
    \A c \in Clients :
        C13_Rejected(c) =>
            LET response == requests'[c].response
            IN  /\ users' = users
                /\ C13_NoSubject(response.credentials)
                       => Is401Bearer(response)
                /\ C13_NoUser(response.credentials, users)
                       => IF database = "None"
                          THEN /\ response.status = 500
                               /\ response.detail =
                                      "Database connection not available"
                          ELSE Is401Bearer(response)

C14_Answered(c) ==
    /\ requests'[c] # requests[c]
    /\ requests'[c].pc = "done"
    /\ requests'[c].response.kind = "onboarding"

\* what register returned with 201 before this step
C14_Registered(token) == {i \in issued : i.access_token = token}

C14_RegisterTokenStep ==
    \A c \in Clients :
        C14_Answered(c) =>
            LET response == requests'[c].response
            IN  \A i \in C14_Registered(response.credentials.token) :
                    /\ i.user \in DOMAIN users
                    /\ users[i.user].email = i.email
                    /\ response.status # 401
                    /\ response.status \in {200, 422}
                    /\ response.user = i.user

C14_RegisterTokenAccepted == [][C14_RegisterTokenStep]_vars

(***************************************************************************)
(* C18: after any sequence and any interleaving of register requests the   *)
(* users collection holds at most one document per email, two register     *)
(* requests for the same email in flight at the same time included.        *)
(***************************************************************************)
C18_OneDocumentPerEmail ==
    \A i, j \in DOMAIN users : users[i].email = users[j].email => i = j

(***************************************************************************)
(* C19: a successful onboarding request changes only the document of the   *)
(* authenticated user and only its fields profile, macro_targets,          *)
(* macros_can_change_weekly and updated_at, written in one update; the     *)
(* email and password_hash of that user and every field of every other     *)
(* user are unchanged.  So in every reachable state a document has both    *)
(* profile and macro_targets set or neither, and a stored macro_targets    *)
(* equals calculate_macros applied to the profile stored beside it.        *)
(***************************************************************************)
C19_SetFields ==
    {"profile", "macro_targets", "macros_can_change_weekly", "updated_at"}

\* both set or neither, and the targets those of the profile
C19_ProfileWithTargets ==
    \A i \in DOMAIN users :
        IF users[i].profile = NoProfile
        THEN users[i].macro_targets = NoMacroTargets
        ELSE /\ users[i].macro_targets # NoMacroTargets
             /\ users[i].macro_targets = macro_result(users[i].profile)

\* a step that changes a document is the update of a request authenticated
\* as the user of that document, and changes the four fields only
C19_UpdateStep ==
    \A i \in DOMAIN users :
        users'[i] # users[i] =>
            /\ DOMAIN users' = DOMAIN users
            /\ \A j \in DOMAIN users \ {i} : users'[j] = users[j]
            /\ \A f \in DOMAIN users[i] \ C19_SetFields :
                   users'[i][f] = users[i][f]
            /\ users'[i].profile # NoProfile
            /\ users'[i].macro_targets # NoMacroTargets
            /\ users'[i].updated_at = "onboarding"
            /\ \E c \in Clients :
                   /\ requests[c].pc = "update"
                   /\ requests'[c].pc = "fetch"
                   /\ requests[c].credentials.token.payload.sub = str(i)
                   /\ users'[i].profile \in OnboardingBodies

C19_OnlyOwnDocument == []C19_ProfileWithTargets /\ [][C19_UpdateStep]_vars

\* the first user has been onboarded and answered 200, the second has not
C19_Witness ==
    /\ Len(users) = 2
    /\ users[1].macro_targets # NoMacroTargets
    /\ users[1].email # users[2].email
    /\ users[2].profile = NoProfile
    /\ users[2].updated_at = "register"
    /\ \E response \in OnboardingResponses :
           response.status = 200 /\ response.user = 1

(***************************************************************************)
(* C20: the onboarding workflow calls calculate_macros with height_inches  *)
(* = height_feet * 12 + height_inches and with is_male true exactly when   *)
(* the request's gender is the string "male"; every other gender value, a  *)
(* missing one included, is computed with the female BMR offset, which     *)
(* gives a BMR exactly 166 lower than the male formula for the same        *)
(* weight, height and age.                                                 *)
(***************************************************************************)
\* the call the workflow is said to make for a stored profile
C20_Call(profile, is_male) ==
    calculate_macros(profile.weight_pounds.tenths,
                     profile.height_feet * 12 + profile.height_inches,
                     profile.age, is_male, profile.goal,
                     profile.training_days_per_week)

\* the BMR of a stored profile under either formula
C20_Bmr(profile, is_male) ==
    calculate_bmr_mifflin_st_jeor(profile.weight_pounds.tenths,
                                  profile.height_feet * 12
                                      + profile.height_inches,
                                  profile.age, is_male)

C20_Onboarded == {i \in DOMAIN users : users[i].profile # NoProfile}

C20_MaleOnlyForMale ==
    \A i \in C20_Onboarded :
        LET profile == users[i].profile
        IN  /\ users[i].macro_targets =
                   C20_Call(profile, profile.gender = "male")
            /\ Same(Minus(C20_Bmr(profile, TRUE), C20_Bmr(profile, FALSE)),
                    Dec(166, 0))

\* documents onboarded with gender "female" and with no gender hold the
\* same targets, which are not those of the male formula
C20_Witness ==
    \E i, j \in C20_Onboarded :
        /\ users[i].profile.gender = NoGender
        /\ users[j].profile.gender = "female"
        /\ users[i].macro_targets = users[j].macro_targets
        /\ users[i].macro_targets # C20_Call(users[i].profile, TRUE)
        /\ users[i].macro_targets.calories
               < C20_Call(users[i].profile, TRUE).calories

====
